---- MODULE Spec2Model ----
(***************************************************************************)
(* gemato/openpgp.py: the process invoker _spawn_gpg, the isolated         *)
(* OpenPGPEnvironment (temporary GNUPGHOME, cached implementation name,    *)
(* close / context manager) and the verify / clear-sign / import facade.   *)
(*                                                                         *)
(* One OpenPGPEnvironment instance is modelled, together with calls of the *)
(* module-level functions made without an environment (env=None).  What    *)
(* the operating system answers (whether an executable launches, the exit  *)
(* status of the child, whether rmtree meets an error) is an input of each *)
(* call and is recorded, with what the call did, in the variable op.       *)
(***************************************************************************)
EXTENDS Integers, Sequences, FiniteSets, TLC

VARIABLES
    _home,          \* OpenPGPEnvironment._home: the temporary directory, or None
    _impl,          \* OpenPGPEnvironment._impl: the resolved executable, or None
    dir,            \* the temporary directory on disk: "exists" or "gone"
    scope,          \* position relative to a `with env:` block
    outf,           \* what clear_sign_file has written to the output file
    killAttempted,  \* gpgconf --kill all has been attempted at least once
    closeReturned,  \* close() has returned normally at least once
    op,             \* the last call: its inputs, what it did, how it ended
    nops            \* number of calls made so far

vars == <<_home, _impl, dir, scope, outf, killAttempted, closeReturned, op, nops>>

(***************************************************************************)
(* Bounds of the model.                                                    *)
(***************************************************************************)
MaxOps == 4

(***************************************************************************)
(* Values.                                                                 *)
(***************************************************************************)
None == "None"
TmpDir == "tmpdir"
ENOENT == "ENOENT"
OSErrors == {"ENOENT", "EACCES"}
Failures == OSErrors \cup {"TypeError"}
IsOSError(e) == e \in OSErrors
LaunchOutcomes == {"ok"} \cup Failures
ExitStatuses == {-1, 0, 1}

DefaultImpls == <<"gpg2", "gpg">>
Candidates == {DefaultImpls[i] : i \in DOMAIN DefaultImpls}

ClosedError == "RuntimeError: OpenPGPEnvironment has been closed"
ImportFailure == "RuntimeError: Unable to import key"
NoImplementation == "OpenPGPNoImplementation"
VerificationFailure == "OpenPGPVerificationFailure"
SigningFailure == "OpenPGPSigningFailure"

(***************************************************************************)
(* OpenPGPEnvironment.home: the property raises once _home is None.        *)
(***************************************************************************)
\* Faulty variant of home: no check for a closed environment.
home_AlwaysReturns(h) == [raised |-> None, value |-> h]

home(h) ==
    IF h = None
    THEN [raised |-> ClosedError, value |-> None]
    ELSE [raised |-> None, value |-> h]

(***************************************************************************)
(* The for/else loop of _spawn_gpg over the candidates: launch[c] is what  *)
(* subprocess.Popen answers for executable c.                              *)
(***************************************************************************)
\* Faulty variant of TryImpls: gives up at the first ENOENT.
RECURSIVE TryImpls_StopAtFirstMissing(_, _)
TryImpls_StopAtFirstMissing(impls, launch) ==
    IF impls = <<>>
    THEN [raised |-> NoImplementation, impl |-> None, tried |-> <<>>]
    ELSE IF launch[Head(impls)] = "ok"
    THEN [raised |-> None, impl |-> Head(impls), tried |-> <<Head(impls)>>]
    ELSE IF launch[Head(impls)] = ENOENT
    THEN [raised |-> NoImplementation, impl |-> None, tried |-> <<Head(impls)>>]
    ELSE [raised |-> launch[Head(impls)], impl |-> None, tried |-> <<Head(impls)>>]

\* Faulty variant of TryImpls: any launch failure is skipped like ENOENT.
RECURSIVE TryImpls_SkipAnyError(_, _)
TryImpls_SkipAnyError(impls, launch) ==
    IF impls = <<>>
    THEN [raised |-> NoImplementation, impl |-> None, tried |-> <<>>]
    ELSE IF launch[Head(impls)] = "ok"
    THEN [raised |-> None, impl |-> Head(impls), tried |-> <<Head(impls)>>]
    ELSE LET rest == TryImpls_SkipAnyError(Tail(impls), launch)
         IN  [rest EXCEPT !.tried = <<Head(impls)>> \o @]

RECURSIVE TryImpls(_, _)
TryImpls(impls, launch) ==
    IF impls = <<>>
    THEN [raised |-> NoImplementation, impl |-> None, tried |-> <<>>]
    ELSE IF launch[Head(impls)] = "ok"
    THEN [raised |-> None, impl |-> Head(impls), tried |-> <<Head(impls)>>]
    ELSE IF ~IsOSError(launch[Head(impls)]) \/ launch[Head(impls)] # ENOENT
    THEN [raised |-> launch[Head(impls)], impl |-> None, tried |-> <<Head(impls)>>]
    ELSE LET rest == TryImpls(Tail(impls), launch)
         IN  [rest EXCEPT !.tried = <<Head(impls)>> \o @]

(***************************************************************************)
(* _spawn_gpg(options, env_instance, stdin).  useEnv: env_instance is the  *)
(* environment (h, im its _home and _impl); otherwise it is None.          *)
(* The result: the exception raised (or None), the value of _impl          *)
(* afterwards, the executables Popen was called for, the executable of the *)
(* child that ran (communicate/wait), or None, and its exit status.        *)
(***************************************************************************)
SpawnResult(raised, impl, tried, child, exitst) ==
    [raised |-> raised, impl |-> impl, tried |-> tried, child |-> child,
     ran |-> child # None, exitst |-> exitst]

\* Faulty variant of _spawn_gpg: the cached _impl is not used.
_spawn_gpg_IgnoreCache(useEnv, h, im, launch, status) ==
    LET t == TryImpls(DefaultImpls, launch)
    IN  IF useEnv /\ home(h).raised # None
        THEN SpawnResult(home(h).raised, im, <<>>, None, 0)
        ELSE IF t.raised # None
        THEN SpawnResult(t.raised, im, t.tried, None, 0)
        ELSE SpawnResult(None, IF useEnv THEN t.impl ELSE im, t.tried, t.impl, status)

_spawn_gpg(useEnv, h, im, launch, status) ==
    LET impls == IF useEnv /\ im # None THEN <<im>> ELSE DefaultImpls
        t == TryImpls(impls, launch)
    IN  IF useEnv /\ home(h).raised # None
        THEN SpawnResult(home(h).raised, im, <<>>, None, 0)
        ELSE IF t.raised # None
        THEN SpawnResult(t.raised, im, t.tried, None, 0)
        ELSE SpawnResult(None, IF useEnv THEN t.impl ELSE im, t.tried, t.impl, status)

(***************************************************************************)
(* OpenPGPEnvironment._rmtree_error_handler(func, path, exc_info): the     *)
(* exception it re-raises, or None when it swallows the error.             *)
(***************************************************************************)
\* Faulty variant of _rmtree_error_handler: every error is swallowed.
_rmtree_error_handler_SwallowAll(e) == None

_rmtree_error_handler(e) ==
    IF ~IsOSError(e) \/ e # ENOENT THEN e ELSE None

(***************************************************************************)
(* shutil.rmtree(self._home, onerror=handler) on a directory in state d.   *)
(* rmErr is the error met while removing an existing tree (None: no        *)
(* error); a directory that is already gone answers ENOENT.  A swallowed   *)
(* error lets rmtree go on, and the tree is gone when it returns.          *)
(***************************************************************************)
rmtree(d, rmErr) ==
    LET err == IF d = "gone" THEN ENOENT ELSE rmErr
        raised == IF err = None THEN None ELSE _rmtree_error_handler(err)
    IN  [raised |-> raised, err |-> err, dir |-> IF raised = None THEN "gone" ELSE d]

(***************************************************************************)
(* OpenPGPEnvironment.close().  killLaunch is what Popen answers for       *)
(* gpgconf.  events lists, in order, what the call did.                    *)
(***************************************************************************)
CloseResult(raised, h, d, events) ==
    [raised |-> raised, home |-> h, dir |-> d, events |-> events]

KillEvents(im, killLaunch) ==
    IF im = None THEN <<>>
    ELSE IF killLaunch = "ok" THEN <<"Popen gpgconf", "wait gpgconf">>
    ELSE <<"Popen gpgconf">>

KillRaised(im, killLaunch) ==
    IF im # None /\ killLaunch # "ok" /\ (~IsOSError(killLaunch) \/ killLaunch # ENOENT)
    THEN killLaunch
    ELSE None

\* Faulty variant of close: no `if self._home is not None`.
close_NoGuard(h, im, d, killLaunch, rmErr) ==
    IF KillRaised(im, killLaunch) # None
    THEN CloseResult(KillRaised(im, killLaunch), h, d, KillEvents(im, killLaunch))
    ELSE IF rmtree(d, rmErr).raised # None
    THEN CloseResult(rmtree(d, rmErr).raised, h, d, KillEvents(im, killLaunch) \o <<"rmtree">>)
    ELSE CloseResult(None, None, rmtree(d, rmErr).dir, KillEvents(im, killLaunch) \o <<"rmtree">>)

\* Faulty variant of close: rmtree before the agent is terminated.
close_RmtreeFirst(h, im, d, killLaunch, rmErr) ==
    IF h = None
    THEN CloseResult(None, h, d, <<>>)
    ELSE IF rmtree(d, rmErr).raised # None
    THEN CloseResult(rmtree(d, rmErr).raised, h, d, <<"rmtree">>)
    ELSE IF KillRaised(im, killLaunch) # None
    THEN CloseResult(KillRaised(im, killLaunch), h, rmtree(d, rmErr).dir, <<"rmtree">> \o KillEvents(im, killLaunch))
    ELSE CloseResult(None, None, rmtree(d, rmErr).dir, <<"rmtree">> \o KillEvents(im, killLaunch))

\* Faulty variant of close: _home is set to None before the teardown.
close_MarkClosedFirst(h, im, d, killLaunch, rmErr) ==
    IF h = None
    THEN CloseResult(None, h, d, <<>>)
    ELSE IF KillRaised(im, killLaunch) # None
    THEN CloseResult(KillRaised(im, killLaunch), None, d, KillEvents(im, killLaunch))
    ELSE IF rmtree(d, rmErr).raised # None
    THEN CloseResult(rmtree(d, rmErr).raised, None, d, KillEvents(im, killLaunch) \o <<"rmtree">>)
    ELSE CloseResult(None, None, rmtree(d, rmErr).dir, KillEvents(im, killLaunch) \o <<"rmtree">>)

close(h, im, d, killLaunch, rmErr) ==
    IF h = None
    THEN CloseResult(None, h, d, <<>>)
    ELSE IF KillRaised(im, killLaunch) # None
    THEN CloseResult(KillRaised(im, killLaunch), h, d, KillEvents(im, killLaunch))
    ELSE IF rmtree(d, rmErr).raised # None
    THEN CloseResult(rmtree(d, rmErr).raised, h, d, KillEvents(im, killLaunch) \o <<"rmtree">>)
    ELSE CloseResult(None, None, rmtree(d, rmErr).dir, KillEvents(im, killLaunch) \o <<"rmtree">>)

(***************************************************************************)
(* OpenPGPEnvironment.__exit__(exc_type, exc_value, exc_cb).               *)
(***************************************************************************)
\* Faulty variant of __exit__: close() is not called.
exit_NeverCloses(h, im, d, killLaunch, rmErr) == CloseResult(None, h, d, <<>>)

exit(h, im, d, killLaunch, rmErr) ==
    IF h # None
    THEN close(h, im, d, killLaunch, rmErr)
    ELSE CloseResult(None, h, d, <<>>)

(***************************************************************************)
(* The facade: import_key, verify_file, clear_sign_file.  Each gives the   *)
(* exception raised (or None), the result of _spawn_gpg and whether the    *)
(* output file was written.                                                *)
(***************************************************************************)
FacadeResult(raised, spawn, wrote) ==
    [raised |-> raised, spawn |-> spawn, wrote |-> wrote]

import_key(h, im, launch, status) ==
    LET s == _spawn_gpg(TRUE, h, im, launch, status)
    IN  IF s.raised # None THEN FacadeResult(s.raised, s, FALSE)
        ELSE IF s.exitst # 0 THEN FacadeResult(ImportFailure, s, FALSE)
        ELSE FacadeResult(None, s, FALSE)

verify_file(useEnv, h, im, launch, status) ==
    LET s == _spawn_gpg(useEnv, h, im, launch, status)
    IN  IF s.raised # None THEN FacadeResult(s.raised, s, FALSE)
        ELSE IF s.exitst # 0 THEN FacadeResult(VerificationFailure, s, FALSE)
        ELSE FacadeResult(None, s, FALSE)

\* Faulty variant of clear_sign_file: `exitst > 0` instead of `exitst != 0`.
clear_sign_file_PositiveOnly(useEnv, h, im, launch, status) ==
    LET s == _spawn_gpg(useEnv, h, im, launch, status)
    IN  IF s.raised # None THEN FacadeResult(s.raised, s, FALSE)
        ELSE IF s.exitst > 0 THEN FacadeResult(SigningFailure, s, FALSE)
        ELSE FacadeResult(None, s, TRUE)

clear_sign_file(useEnv, h, im, launch, status) ==
    LET s == _spawn_gpg(useEnv, h, im, launch, status)
    IN  IF s.raised # None THEN FacadeResult(s.raised, s, FALSE)
        ELSE IF s.exitst # 0 THEN FacadeResult(SigningFailure, s, FALSE)
        ELSE FacadeResult(None, s, TRUE)

(***************************************************************************)
(* The record of a call kept in op: what was asked (name, env, exc),        *)
(*     , what the operating system answered to the requests the call       *)
(* really made (answers, exitst, killAnswer, killStatus, rmAnswer), what   *)
(* the call did (tried, child, ran, wrote, events), how it ended (raised,  *)
(* value) and what the call found (homeBefore, implBefore, dirBefore,      *)
(* outfBefore, closedBefore; afterFailedClose: the call before it was a    *)
(* close() or __exit__() that raised).                                     *)
(***************************************************************************)
SeqHas(s, x) == \E i \in DOMAIN s : s[i] = x

NoCall ==
    [name |-> "__init__", env |-> TRUE, exc |-> None,
     raised |-> None, value |-> None,
     tried |-> <<>>, answers |-> <<>>, child |-> None, ran |-> FALSE, exitst |-> 0, wrote |-> FALSE,
     events |-> <<>>, killAnswer |-> None, killStatus |-> 0, rmAnswer |-> None,
     homeBefore |-> None, implBefore |-> None, dirBefore |-> "gone",
     outfBefore |-> <<>>, closedBefore |-> FALSE, afterFailedClose |-> FALSE]

Before(name, useEnv) ==
    [NoCall EXCEPT !.name = name, !.env = useEnv,
                   !.homeBefore = _home, !.implBefore = _impl,
                   !.dirBefore = dir, !.outfBefore = outf,
                   !.closedBefore = closeReturned,
                   !.afterFailedClose = (op.name \in {"close", "__exit__"} /\ op.raised # None)]

SpawnCall(name, useEnv, f, launch) ==
    [Before(name, useEnv) EXCEPT
        !.raised = f.raised,
        !.tried = f.spawn.tried,
        !.answers = [i \in DOMAIN f.spawn.tried |-> launch[f.spawn.tried[i]]],
        !.child = f.spawn.child,
        !.ran = f.spawn.ran,
        !.exitst = f.spawn.exitst,
        !.wrote = f.wrote]

CloseCall(name, exc, r, killLaunch, killStatus, rmErr) ==
    [Before(name, TRUE) EXCEPT
        !.exc = exc,
        !.raised = r.raised,
        !.events = r.events,
        !.killAnswer = IF SeqHas(r.events, "Popen gpgconf") THEN killLaunch ELSE None,
        !.killStatus = IF SeqHas(r.events, "wait gpgconf") THEN killStatus ELSE 0,
        !.rmAnswer = IF SeqHas(r.events, "rmtree") THEN rmtree(dir, rmErr).err ELSE None]

(***************************************************************************)
(* The operating system's answers a call can meet.  An answer is an input  *)
(* only of a call that asks for it: an exit status when a child runs, an   *)
(* answer for gpgconf when the environment is open with an implementation  *)
(* resolved, an rmtree error when the environment is open and the          *)
(* directory still exists.                                                 *)
(***************************************************************************)
StatusInputs(useEnv, launch) ==
    IF _spawn_gpg(useEnv, _home, _impl, launch, 0).ran THEN ExitStatuses ELSE {0}

KillInputs ==
    IF _home # None /\ _impl # None THEN LaunchOutcomes ELSE {"ok"}

KillStatusInputs(killLaunch) ==
    IF _home # None /\ _impl # None /\ killLaunch = "ok" THEN ExitStatuses ELSE {0}

RmInputs ==
    IF _home # None /\ dir = "exists" THEN {None} \cup Failures ELSE {None}

(***************************************************************************)
(* State after OpenPGPEnvironment(): the directory has been created, no    *)
(* implementation is resolved.                                             *)
(***************************************************************************)
Init ==
    /\ _home = TmpDir
    /\ _impl = None
    /\ dir = "exists"
    /\ scope = "outside"
    /\ outf = <<>>
    /\ killAttempted = FALSE
    /\ closeReturned = FALSE
    /\ op = NoCall
    /\ nops = 0

(***************************************************************************)
(* env.import_key(keyfile)                                                 *)
(***************************************************************************)
ImportKey ==
    /\ nops < MaxOps
    /\ \E launch \in [Candidates -> LaunchOutcomes] : \E status \in StatusInputs(TRUE, launch) :
        LET f == import_key(_home, _impl, launch, status)
        IN  /\ op' = SpawnCall("import_key", TRUE, f, launch)
            /\ _impl' = f.spawn.impl
    /\ nops' = nops + 1
    /\ UNCHANGED <<_home, dir, scope, outf, killAttempted, closeReturned>>

(***************************************************************************)
(* verify_file(f, env=None) and env.verify_file(f)                         *)
(***************************************************************************)
VerifyFile ==
    /\ nops < MaxOps
    /\ \E useEnv \in BOOLEAN, launch \in [Candidates -> LaunchOutcomes] : \E status \in StatusInputs(useEnv, launch) :
        LET f == verify_file(useEnv, _home, _impl, launch, status)
        IN  /\ op' = SpawnCall("verify_file", useEnv, f, launch)
            /\ _impl' = f.spawn.impl
    /\ nops' = nops + 1
    /\ UNCHANGED <<_home, dir, scope, outf, killAttempted, closeReturned>>

(***************************************************************************)
(* clear_sign_file(f, outf, keyid=None, env=None) and                      *)
(* env.clear_sign_file(f, outf, keyid=None)                                *)
(***************************************************************************)
ClearSignFile ==
    /\ nops < MaxOps
    /\ \E useEnv \in BOOLEAN, launch \in [Candidates -> LaunchOutcomes] : \E status \in StatusInputs(useEnv, launch) :
        LET f == clear_sign_file(useEnv, _home, _impl, launch, status)
        IN  /\ op' = SpawnCall("clear_sign_file", useEnv, f, launch)
            /\ _impl' = f.spawn.impl
            /\ outf' = IF f.wrote THEN Append(outf, "signed") ELSE outf
    /\ nops' = nops + 1
    /\ UNCHANGED <<_home, dir, scope, killAttempted, closeReturned>>

(***************************************************************************)
(* env.home                                                                *)
(***************************************************************************)
Home ==
    /\ nops < MaxOps
    /\ op' = [Before("home", TRUE) EXCEPT !.raised = home(_home).raised,
                                          !.value = home(_home).value]
    /\ nops' = nops + 1
    /\ UNCHANGED <<_home, _impl, dir, scope, outf, killAttempted, closeReturned>>

(***************************************************************************)
(* env.close()                                                             *)
(***************************************************************************)
Close ==
    /\ nops < MaxOps
    /\ \E killLaunch \in KillInputs : \E killStatus \in KillStatusInputs(killLaunch), rmErr \in RmInputs :
        LET r == close(_home, _impl, dir, killLaunch, rmErr)
        IN  /\ op' = CloseCall("close", None, r, killLaunch, killStatus, rmErr)
            /\ _home' = r.home
            /\ dir' = r.dir
            /\ killAttempted' = (killAttempted \/ SeqHas(r.events, "Popen gpgconf"))
            /\ closeReturned' = (closeReturned \/ r.raised = None)
    /\ nops' = nops + 1
    /\ UNCHANGED <<_impl, scope, outf>>

(***************************************************************************)
(* `with env:` -- __enter__ returns self; the block is left, normally or   *)
(* with an exception in flight, through __exit__.                          *)
(***************************************************************************)
Enter ==
    /\ scope = "outside"
    /\ scope' = "inside"
    /\ UNCHANGED <<_home, _impl, dir, outf, killAttempted, closeReturned, op, nops>>

Exit ==
    /\ scope = "inside"
    /\ nops < MaxOps
    /\ \E exc \in {None, "Exception"}, killLaunch \in KillInputs : \E killStatus \in KillStatusInputs(killLaunch), rmErr \in RmInputs :
        LET r == exit(_home, _impl, dir, killLaunch, rmErr)
        IN  /\ op' = CloseCall("__exit__", exc, r, killLaunch, killStatus, rmErr)
            /\ _home' = r.home
            /\ dir' = r.dir
            /\ killAttempted' = (killAttempted \/ SeqHas(r.events, "Popen gpgconf"))
            /\ closeReturned' = (closeReturned \/ (_home # None /\ r.raised = None))
    /\ scope' = "left"
    /\ nops' = nops + 1
    /\ UNCHANGED <<_impl, outf>>

(***************************************************************************)
(* The race _rmtree_error_handler is written for: something else (the      *)
(* gpg-agent cleaning up after itself) removes the directory.              *)
(***************************************************************************)
ExternalRemove ==
    /\ dir = "exists"
    /\ dir' = "gone"
    /\ UNCHANGED <<_home, _impl, scope, outf, killAttempted, closeReturned, op, nops>>

Next ==
    \/ ImportKey
    \/ VerifyFile
    \/ ClearSignFile
    \/ Home
    \/ Close
    \/ Enter
    \/ Exit
    \/ ExternalRemove

Spec == Init /\ [][Next]_vars

(***************************************************************************)
(* Properties.                                                             *)
(***************************************************************************)
IsSpawn == op.name \in {"import_key", "verify_file", "clear_sign_file"}

\* The call reached the candidate loop of _spawn_gpg.
ReachedLoop == IsSpawn /\ (op.env => op.homeBefore # None)

\* The call ran the candidate loop over the default list <<"gpg2", "gpg">>.
UsedDefaultList == ReachedLoop /\ (op.env => op.implBefore = None)

\* The call is a close(), direct or through __exit__, of an open environment.
OpenClose == op.name \in {"close", "__exit__"} /\ op.homeBefore # None

\* C1: an invocation over the default list <<"gpg2", "gpg">> tries the
\* candidates in order; a candidate answering ENOENT is skipped and the next
\* one is tried; the first candidate that launches is the one whose child
\* runs (and the one cached on the environment); when every candidate
\* answers ENOENT the call raises OpenPGPNoImplementation and no child runs.
C1_DefaultListFallthrough ==
    UsedDefaultList =>
        /\ op.tried # <<>>
        /\ Len(op.tried) <= Len(DefaultImpls)
        /\ \A i \in DOMAIN op.tried : op.tried[i] = DefaultImpls[i]
        /\ \A i \in DOMAIN op.tried : i < Len(op.tried) => op.answers[i] = ENOENT
        /\ \A i \in DOMAIN op.tried :
              op.answers[i] = ENOENT /\ i < Len(DefaultImpls) => i < Len(op.tried)
        /\ \A i \in DOMAIN op.tried :
              op.answers[i] = "ok" =>
                  /\ i = Len(op.tried)
                  /\ op.child = op.tried[i]
                  /\ op.ran
                  /\ (op.env => _impl = op.tried[i])
        /\ (/\ Len(op.tried) = Len(DefaultImpls)
            /\ \A i \in DOMAIN op.tried : op.answers[i] = ENOENT)
              => (op.raised = NoImplementation /\ ~op.ran /\ op.child = None)

\* C1 witness: gpg2 is not found, gpg launches and is the one used.
C1_Witness ==
    /\ UsedDefaultList
    /\ op.env
    /\ op.tried = <<"gpg2", "gpg">>
    /\ op.answers = <<ENOENT, "ok">>
    /\ op.child = "gpg"
    /\ _impl = "gpg"

\* C2: once close() has returned, _home is None for ever, and every access
\* to env.home -- direct, or the one _spawn_gpg makes for import_key,
\* verify_file and clear_sign_file with the environment -- raises the
\* "has been closed" RuntimeError, yields no path, calls Popen for no
\* candidate, runs no child and leaves _impl as it was.
C2_ClosedHomeRaises ==
    /\ closeReturned => _home = None
    /\ (op.closedBefore /\ op.env /\ (IsSpawn \/ op.name = "home")) =>
          /\ op.raised = ClosedError
          /\ op.value = None
          /\ op.tried = <<>>
          /\ ~op.ran
          /\ ~op.wrote
          /\ _impl = op.implBefore

\* C2 witness: import_key on a closed environment that had resolved gpg2.
C2_Witness ==
    /\ op.name = "import_key"
    /\ op.closedBefore
    /\ op.implBefore = "gpg2"
    /\ op.raised = ClosedError

\* C3: close() on an environment that is already closed raises nothing,
\* does not call Popen for gpgconf, does not call rmtree and changes neither
\* _home nor _impl (nor the directory on disk).
C3_CloseIdempotent ==
    (op.name = "close" /\ op.homeBefore = None) =>
        /\ op.raised = None
        /\ op.events = <<>>
        /\ op.killAnswer = None
        /\ op.rmAnswer = None
        /\ _home = None
        /\ _impl = op.implBefore
        /\ dir = op.dirBefore

\* C3 witness: the third close() in a row, on an environment that had
\* resolved an implementation.
C3_Witness ==
    /\ op.name = "close"
    /\ op.homeBefore = None
    /\ op.implBefore # None
    /\ nops >= 4

\* The environment has been released: the directory is gone, _home is None,
\* and gpgconf --kill all has been attempted if an implementation was resolved.
Released ==
    /\ dir = "gone"
    /\ _home = None
    /\ (_impl # None => killAttempted)

\* C4 as stated: whenever the `with` block has just been left through
\* __exit__, normally or with an exception in flight, the environment has
\* been released.
C4_Original_EveryExitReleases ==
    op.name = "__exit__" => Released

\* C4 as amended: __exit__ calls close() unless the environment is already
\* closed, on a normal exit and on an exit with an exception in flight
\* alike; when __exit__ returns without raising, the environment has been
\* released; when close() raises inside it (gpgconf failing to launch for a
\* reason other than ENOENT, rmtree failing for a reason other than ENOENT)
\* that error leaves the block and the environment is not released: it is
\* still open.
C4_ExitReleasesUnlessCloseRaises ==
    op.name = "__exit__" =>
        /\ scope = "left"
        /\ (op.homeBefore # None => op.events # <<>>)
        /\ (op.raised = None => Released)
        /\ (op.raised # None =>
              /\ op.raised \in Failures \ {ENOENT}
              /\ op.raised \in {op.killAnswer, op.rmAnswer}
              /\ _home = op.homeBefore
              /\ _home # None
              /\ ~Released)

\* C4 witness: the block is left by an exception while the environment is
\* open with an implementation resolved, and __exit__ releases it.
C4_Witness ==
    /\ op.name = "__exit__"
    /\ op.exc = "Exception"
    /\ op.homeBefore # None
    /\ op.implBefore # None
    /\ op.dirBefore = "exists"
    /\ op.raised = None
    /\ Released

\* What went wrong during a close() of an open environment.
KillLaunchFailed == op.killAnswer \in Failures
KillExitedNonZero == op.killAnswer = "ok" /\ op.killStatus # 0
RmtreeFailed == op.rmAnswer \in Failures

C6_ImplSetOnce ==
    /\ op.implBefore # None => _impl = op.implBefore
    /\ (op.implBefore = None /\ _impl # None) =>
          (IsSpawn /\ op.env /\ op.ran /\ op.child = _impl)
    /\ (op.implBefore = None /\ IsSpawn /\ op.env /\ op.ran) => _impl = op.child
    /\ (op.implBefore = None /\ ~(IsSpawn /\ op.env /\ op.ran)) => _impl = None
    /\ (ReachedLoop /\ op.env /\ op.implBefore # None) =>
          /\ op.tried = <<op.implBefore>>
          /\ (op.ran => op.child = op.implBefore)
          /\ (op.answers[1] = ENOENT => op.raised = NoImplementation /\ ~op.ran)

\* C6 witness: gpg2 was cached, is no longer found, and the call fails
\* without trying gpg.
C6_Witness ==
    /\ ReachedLoop
    /\ op.env
    /\ op.implBefore = "gpg2"
    /\ op.tried = <<"gpg2">>
    /\ op.answers = <<ENOENT>>
    /\ op.raised = NoImplementation
    /\ _impl = "gpg2"

\* C7: when Popen fails for a candidate with anything but ENOENT, that
\* candidate is the last one tried, the call raises that very failure (not
\* OpenPGPNoImplementation), no child runs and _impl is left as it was.
C7_OtherLaunchErrorPropagates ==
    IsSpawn =>
        \A i \in DOMAIN op.tried :
            op.answers[i] \notin {"ok", ENOENT} =>
                /\ i = Len(op.tried)
                /\ op.raised = op.answers[i]
                /\ op.raised # NoImplementation
                /\ ~op.ran
                /\ op.child = None
                /\ ~op.wrote
                /\ _impl = op.implBefore

\* C7 witness: gpg2 answers EACCES on the default list; gpg is not tried.
C7_Witness ==
    /\ UsedDefaultList
    /\ op.env
    /\ op.tried = <<"gpg2">>
    /\ op.answers = <<"EACCES">>
    /\ op.raised = "EACCES"

\* The error kind of each facade operation.
OwnError ==
    CASE op.name = "import_key" -> ImportFailure
      [] op.name = "verify_file" -> VerificationFailure
      [] op.name = "clear_sign_file" -> SigningFailure
      [] OTHER -> None

FirstIndex(s, x) ==
    IF SeqHas(s, x) THEN CHOOSE i \in DOMAIN s : s[i] = x /\ \A j \in 1..(i - 1) : s[j] # x
    ELSE 0

\* C9: a close() of an open environment calls Popen for gpgconf exactly when
\* _impl is set; a gpgconf that launched has been waited for before rmtree
\* starts, and rmtree is never called before the termination attempt.
C9_KillBeforeRmtree ==
    OpenClose =>
        /\ (SeqHas(op.events, "Popen gpgconf") <=> op.implBefore # None)
        /\ (op.implBefore = None => op.killAnswer = None)
        /\ (SeqHas(op.events, "wait gpgconf") <=> op.killAnswer = "ok")
        /\ (SeqHas(op.events, "Popen gpgconf") => FirstIndex(op.events, "Popen gpgconf") = 1)
        /\ (SeqHas(op.events, "wait gpgconf") => FirstIndex(op.events, "wait gpgconf") = 2)
        /\ (SeqHas(op.events, "rmtree") =>
              /\ FirstIndex(op.events, "rmtree") = Len(op.events)
              /\ (op.implBefore # None => FirstIndex(op.events, "Popen gpgconf") < FirstIndex(op.events, "rmtree"))
              /\ (op.killAnswer = "ok" => FirstIndex(op.events, "wait gpgconf") < FirstIndex(op.events, "rmtree")))

\* C9 witness: gpgconf is launched and waited for, then the directory is
\* removed.
C9_Witness ==
    /\ OpenClose
    /\ op.implBefore # None
    /\ op.events = <<"Popen gpgconf", "wait gpgconf", "rmtree">>
    /\ dir = "gone"

\* C10: a close() that raises leaves the environment open: _home keeps its
\* value, env.home returns it without raising, _impl is unchanged; the next
\* close() (or __exit__) starts the teardown again from the termination
\* attempt; _home becomes None only in a call in which rmtree ran to
\* completion.
C10_FailedCloseLeavesOpen ==
    /\ (op.name \in {"close", "__exit__"} /\ op.raised # None) =>
          /\ _home = op.homeBefore
          /\ _home # None
          /\ home(_home).raised = None
          /\ home(_home).value = op.homeBefore
          /\ _impl = op.implBefore
          /\ ~closeReturned
    /\ (op.name \in {"close", "__exit__"} /\ op.afterFailedClose) =>
          /\ op.homeBefore # None
          /\ op.events # <<>>
          /\ op.events[1] = IF op.implBefore # None THEN "Popen gpgconf" ELSE "rmtree"
    /\ (op.name = "home" /\ op.afterFailedClose) =>
          (op.raised = None /\ op.value = op.homeBefore /\ op.value # None)
    /\ (op.homeBefore # None /\ _home = None) =>
          /\ op.name \in {"close", "__exit__"}
          /\ op.raised = None
          /\ op.events[Len(op.events)] = "rmtree"
          /\ dir = "gone"

\* C10 witness: the previous close() (or __exit__) raised; this close()
\* goes through the termination attempt and rmtree again and closes
\* the environment.
C10_Witness ==
    /\ op.name = "close"
    /\ op.afterFailedClose
    /\ op.implBefore # None
    /\ op.events = <<"Popen gpgconf", "wait gpgconf", "rmtree">>
    /\ op.raised = None
    /\ _home = None

====
